---- MODULE Spec2Model ----
(***************************************************************************)
(* rclone-sync (src/rclone_sync.py): concurrent runs of main() sharing the *)
(* directory of lock files, the pair identifier, the listing of the two    *)
(* sides, and the reconciliation decision table of the design document.    *)
(***************************************************************************)
EXTENDS Integers, Sequences, FiniteSets, TLC

(* ------------------------------ bounds -------------------------------- *)
\* Number of processes running main() at the same time.
NumRuns == 2
\* Number of canonical endpoints the command lines choose from.
NumEndpoints == 2
\* Largest value given to --retries.
MaxRetries == 2
\* Number of relative file paths the reconciliation engine is given.
NumPaths == 1
\* Number of relative file paths a listing can report.
NumFiles == 2
\* Largest file size a listing can report.
MaxSize == 1
\* Largest modification time a listing can report.
MaxTime == 1
\* Largest number of lines in the output of one listing.
MaxLines == 1
\* Characters and length of the endpoint strings the pair identifier is
\* computed over.
NumChars == 2
MaxLen == 2
\* Number of distinct attribute values a present file can have in the
\* observations given to the reconciliation engine.
NumVersions == 2

(* --------------------------- values and types ------------------------- *)
\* Python's None, and a value that is not None.
None == <<>>
Some(v) == <<v>>

\* datetime.datetime.min, the class attribute FileAttributes.timestamp.
TimestampMin == 0

Runs == 1 .. NumRuns

\* Strings are sequences of character codes; '' is the empty sequence.
EmptyStr == <<>>

RECURSIVE StrsOfLen(_)
StrsOfLen(n) ==
    IF n = 0 THEN {EmptyStr}
    ELSE {Append(s, c) : s \in StrsOfLen(n - 1), c \in 1 .. NumChars}

\* The non-empty strings of at most n characters.
Strs(n) == UNION {StrsOfLen(k) : k \in 1 .. n}

\* Canonical endpoints of the runs: "b", "ab", "a", "ba", ...
EndpointTable == << <<2>>, <<1, 2>>, <<1>>, <<2, 1>>, <<1, 1>>, <<2, 2>> >>
Endpoints == {EndpointTable[i] : i \in 1 .. NumEndpoints}

\* Relative file paths "a", "b", ... the reconciliation engine is given.
PathNames == {<<p>> : p \in 1 .. NumPaths}

\* Relative file paths "a", "b", ... reported by a listing.
ListedPaths == {<<p>> : p \in 1 .. NumFiles}

(* ------------------------ pure functions of the code ------------------ *)
\* str.__gt__: lexicographic comparison by code point; a proper prefix is
\* smaller.
RECURSIVE StrGt(_, _)
StrGt(a, b) ==
    IF a = EmptyStr THEN FALSE
    ELSE IF b = EmptyStr THEN TRUE
    ELSE IF Head(a) # Head(b) THEN Head(a) > Head(b)
    ELSE StrGt(Tail(a), Tail(b))

\* hashlib.sha256(...).hexdigest(): a digest of the bytes fed to it, taken
\* to be collision free, so the digest is tagged input.
Sha256Hex(bytes) == <<"sha256", bytes>>

\* get_paths_id: digest of the concatenation of the two paths.
get_paths_id(path_1, path_2) == Sha256Hex(path_1 \o path_2)

\* A mutated ordering step that never swaps.
OrderPathsNoSwap(path_1_str, path_2_str) == <<path_1_str, path_2_str>>

\* main, the ordering step: the greater string goes second.
OrderPaths(path_1_str, path_2_str) ==
    IF StrGt(path_1_str, path_2_str)
    THEN <<path_2_str, path_1_str>>
    ELSE <<path_1_str, path_2_str>>

\* main: the identifier derived from the two resolved paths as given.
PairId(a, b) == get_paths_id(OrderPaths(a, b)[1], OrderPaths(a, b)[2])

\* FileAttributes(): size None, timestamp datetime.min.
FileAttributes == [size |-> None, timestamp |-> TimestampMin]

\* FileAttributes.__eq__ as @dataclasses.dataclass generates it: the tuples
\* of the fields are compared, and only an annotated class attribute is a
\* field: size is one, timestamp is not.
FileAttributesEq(a, b) == <<a.size>> = <<b.size>>

\* SyncFile(path): four empty attribute slots.
SyncFile(path) ==
    [path |-> path, db_1 |-> FileAttributes, db_2 |-> FileAttributes,
     path_1 |-> FileAttributes, path_2 |-> FileAttributes]

\* add_properties that always fills the slot of side 1.
add_propertiesFirstSlot(f_obj, type_, size, timestamp) ==
    [f_obj EXCEPT !["path_1"] = [size |-> Some(size), timestamp |-> timestamp]]

\* SyncFile.add_properties: sets size and timestamp of one slot.
add_properties(f_obj, type_, size, timestamp) ==
    [f_obj EXCEPT ![type_] = [size |-> Some(size), timestamp |-> timestamp]]

\* The lines of an `rclone lsf` output after rstrip().split("\n") and
\* rsplit(";", 2): an output with no file is one line with one empty field.
LsfLines(lsf_output) ==
    IF lsf_output = <<>> THEN << <<EmptyStr>> >> ELSE lsf_output

\* files with files[key] set to f_obj.
DictSet(files, key, f_obj) ==
    [k \in DOMAIN files \cup {key} |-> IF k = key THEN f_obj ELSE files[k]]

\* parse_lsf over the split lines: the entry of the line's path is looked
\* up or created, then its slot is filled; a line with fewer than three
\* fields raises IndexError after the entry was created.
RECURSIVE ParseLines(_, _, _)
ParseLines(lines, type_, files) ==
    IF lines = <<>> THEN [files |-> files, raised |-> FALSE]
    ELSE LET f_split == Head(lines)
             key == f_split[1]
             f_obj == IF key \in DOMAIN files THEN files[key] ELSE SyncFile(key)
         IN  IF Len(f_split) < 3
             THEN [files |-> DictSet(files, key, f_obj), raised |-> TRUE]
             ELSE ParseLines(Tail(lines), type_,
                             DictSet(files, key,
                                     add_properties(f_obj, type_, f_split[3],
                                                    f_split[2])))

parse_lsf(lsf_output, type_, files) ==
    ParseLines(LsfLines(lsf_output), type_, files)

\* One line of a listing, as split: path, timestamp, size.
LsfLine ==
    {<<p, t, s>> : p \in ListedPaths, t \in 1 .. MaxTime, s \in 1 .. MaxSize}

RECURSIVE SeqsOfLen(_, _)
SeqsOfLen(S, n) ==
    IF n = 0 THEN {<<>>}
    ELSE {Append(q, x) : q \in SeqsOfLen(S, n - 1), x \in S}

\* The outputs a successful listing can have, the empty one included.
LsfOutputs == UNION {SeqsOfLen(LsfLine, n) : n \in 0 .. MaxLines}

(* ------------------------------- state -------------------------------- *)
VARIABLES
    pc,         \* pc[r]: where run r is in main()
    argv,       \* argv[r]: the options of the parsed command line
    paths,      \* paths[r]: <<path_1, path_2>>: the positional arguments,
                \* then the resolved paths in main's order
    paths_id,   \* paths_id[r]
    lockFiles,  \* names of the files in <tmp>/rclone-sync
    atexit,     \* atexit[r]: delete_lock_file is registered
    retries,    \* retries[r]: the retries argument of list_files
    i,          \* i[r]: loop variable of list_files_in_path
    attempts,   \* attempts[r][k]: listing commands run for side k so far
    failures,   \* failures[r][k]: of these, the ones that failed
    files,      \* files[r]: the file map
    stdout,     \* stdout[r][k]: ret.stdout of the successful listing of
                \* side k that was merged into files[r]
    listed,     \* listed[r][k]: the number of files the successful listing
                \* command of side k reported
    exitCode,   \* exitCode[r]: the process's exit status
    exitAt      \* exitAt[r]: the step at which the process ended

runVars == <<pc, argv, paths, paths_id, lockFiles, atexit, retries, i,
             attempts, failures, files, stdout, listed, exitCode, exitAt>>

\* The pair identifier computed for two endpoints in both argument orders.
VARIABLES
    ep_a, ep_b, \* two canonical endpoints
    id_ab,      \* the identifier main derives from (ep_a, ep_b)
    id_ba,      \* the identifier main derives from (ep_b, ep_a)
    ep_c, ep_d, \* the canonical endpoints of a second pair
    id_cd       \* the identifier of (ep_c, ep_d)

pairVars == <<ep_a, ep_b, id_ab, id_ba, ep_c, ep_d, id_cd>>

\* One pair reconciled run after run, as the design document lays it out.
VARIABLES
    eng_pc,     \* "listed", "planned", "applied" or "saved"
    sideA,      \* sideA[p]: what side A holds at path p
    sideB,      \* sideB[p]: what side B holds at path p
    storeA,     \* storeA[p]: the persisted baseline of side A
    storeB,     \* storeB[p]: the persisted baseline of side B
    currentA,   \* the engine's inputs: the listings of this run ...
    currentB,
    baselineA,  \* ... and the baseline loaded at its start
    baselineB,
    plan        \* plan[p]: the action decided for path p

engVars == <<eng_pc, sideA, sideB, storeA, storeB, currentA, currentB,
             baselineA, baselineB, plan>>

\* Two FileAttributes objects and the outcome of comparing them.
VARIABLES
    fa_x, fa_y, \* the two objects
    eq_xy,      \* fa_x == fa_y, once evaluated
    eq_yx       \* fa_y == fa_x, once evaluated

attrVars == <<fa_x, fa_y, eq_xy, eq_yx>>

vars == <<runVars, pairVars, attrVars, engVars>>

\* The values --retries can have: absent, or an integer.
RetriesArgs == {None} \cup {Some(n) : n \in -1 .. MaxRetries}

\* The command lines and listing outputs of a run on its own.
Argv == [path_1 : Endpoints, path_2 : Endpoints, retries : RetriesArgs]


\* The command lines and listing outputs of the concurrent runs: --retries 1,
\* a listing of no file or of one file.
ConcArgv == [path_1 : Endpoints, path_2 : Endpoints, retries : {Some(1)}]
ConcOutputs == {<<>>, << << <<1>>, 1, 1 >> >>}

NoSides == [k \in 1 .. 2 |-> 0]
NoOutputs == [k \in 1 .. 2 |-> None]

InitRuns ==
    /\ pc = [r \in Runs |-> "parse_args"]
    /\ argv = [r \in Runs |-> None]
    /\ paths = [r \in Runs |-> None]
    /\ paths_id = [r \in Runs |-> None]
    /\ lockFiles = {}
    /\ atexit = [r \in Runs |-> FALSE]
    /\ retries = [r \in Runs |-> 1]
    /\ i = [r \in Runs |-> 0]
    /\ attempts = [r \in Runs |-> NoSides]
    /\ failures = [r \in Runs |-> NoSides]
    /\ files = [r \in Runs |-> << >>]
    /\ stdout = [r \in Runs |-> NoOutputs]
    /\ listed = [r \in Runs |-> NoOutputs]
    /\ exitCode = [r \in Runs |-> None]
    /\ exitAt = [r \in Runs |-> None]

\* No pair identifier is being computed.
PairIdle ==
    /\ ep_a = EmptyStr
    /\ ep_b = EmptyStr
    /\ id_ab = None
    /\ id_ba = None
    /\ ep_c = EmptyStr
    /\ ep_d = EmptyStr
    /\ id_cd = None

\* No reconciliation is under way.
EngineIdle ==
    /\ eng_pc = "idle"
    /\ sideA = << >>
    /\ sideB = << >>
    /\ storeA = << >>
    /\ storeB = << >>
    /\ currentA = << >>
    /\ currentB = << >>
    /\ baselineA = << >>
    /\ baselineB = << >>
    /\ plan = << >>

\* No FileAttributes are being compared.
AttrIdle ==
    /\ fa_x = FileAttributes
    /\ fa_y = FileAttributes
    /\ eq_xy = None
    /\ eq_yx = None

Init == InitRuns /\ PairIdle /\ AttrIdle /\ EngineIdle

(* ------------------------------ actions ------------------------------- *)
\* Exit handlers that leave the lock file in place.
AtExitKeepsLockFile(r) == lockFiles

\* Exit handlers that unlink the lock file of the pair whether the run
\* created it or not.
AtExitAlwaysUnlinks(r) == lockFiles \ {paths_id[r]}

\* The atexit handlers of run r: delete_lock_file unlinks the lock file
\* when it was registered.
AtExitLockFiles(r) ==
    IF atexit[r] THEN lockFiles \ {paths_id[r]} ELSE lockFiles

\* The process of run r is gone: its memory is released. The pair it ran
\* on and the listings it made stay on record.
ProcessEnds(r) ==
    /\ pc' = [pc EXCEPT ![r] = "done"]
    /\ argv' = [argv EXCEPT ![r] = None]
    /\ paths' = [paths EXCEPT ![r] = None]
    /\ atexit' = [atexit EXCEPT ![r] = FALSE]
    /\ retries' = [retries EXCEPT ![r] = 1]
    /\ i' = [i EXCEPT ![r] = 0]
    /\ files' = [files EXCEPT ![r] = << >>]
    /\ stdout' = [stdout EXCEPT ![r] = NoOutputs]
    /\ exitAt' = [exitAt EXCEPT ![r] = pc[r]]

\* sys.exit(code), or an uncaught exception (status 1): the interpreter
\* runs the atexit handlers and the process ends.
Exit(r, code) ==
    /\ lockFiles' = AtExitLockFiles(r)
    /\ exitCode' = [exitCode EXCEPT ![r] = Some(code)]
    /\ ProcessEnds(r)

\* Run r goes on to label, with locals as the conjuncts after it say.
Goto(r, label) ==
    /\ pc' = [pc EXCEPT ![r] = label]
    /\ UNCHANGED <<exitCode, exitAt>>

\* main: parser.parse_args().
ParseArgs(r, Args) ==
    /\ UNCHANGED <<pairVars, attrVars, engVars>>
    /\ pc[r] = "parse_args"
    /\ \E a \in Args :
          /\ argv' = [argv EXCEPT ![r] = [retries |-> a.retries]]
          /\ paths' = [paths EXCEPT ![r] = <<a.path_1, a.path_2>>]
    /\ Goto(r, "check_rclone_config")
    /\ UNCHANGED <<paths_id, lockFiles, atexit, retries, i, attempts,
                   failures, listed, files, stdout>>

\* check_rclone_config: exit 10 without the executable, 11 without the
\* configuration file.
CheckRcloneConfig(r) ==
    /\ UNCHANGED <<pairVars, attrVars, engVars>>
    /\ pc[r] = "check_rclone_config"
    /\ \/ Exit(r, 10)
       \/ Exit(r, 11)
       \/ /\ Goto(r, "resolve_paths")
          /\ UNCHANGED <<argv, paths, lockFiles, atexit, retries, i, files,
                         stdout>>
    /\ UNCHANGED <<paths_id, attempts, failures, listed>>

\* A resolve_paths that lets two identical paths through.
ResolvePathsNoIdentityCheck(r) ==
    /\ UNCHANGED <<pairVars, attrVars, engVars>>
    /\ pc[r] = "resolve_paths"
    /\ \/ Exit(r, 1) /\ UNCHANGED paths_id
       \/ Exit(r, 2) /\ UNCHANGED paths_id
       \/ /\ LET ordered == OrderPaths(paths[r][1], paths[r][2])
             IN  /\ paths' = [paths EXCEPT ![r] = ordered]
                 /\ paths_id' = [paths_id EXCEPT ![r] =
                                    get_paths_id(ordered[1], ordered[2])]
          /\ Goto(r, "lock")
          /\ UNCHANGED <<argv, lockFiles, atexit, retries, i, files, stdout>>
    /\ UNCHANGED <<attempts, failures, listed>>

\* resolve_paths, then main's ordering step and get_paths_id.
ResolvePaths(r) ==
    /\ UNCHANGED <<pairVars, attrVars, engVars>>
    /\ pc[r] = "resolve_paths"
    /\ \/ Exit(r, 1) /\ UNCHANGED paths_id
       \/ Exit(r, 2) /\ UNCHANGED paths_id
       \/ /\ paths[r][1] = paths[r][2]
          /\ Exit(r, 3)
          /\ UNCHANGED paths_id
       \/ /\ paths[r][1] # paths[r][2]
          /\ LET ordered == OrderPaths(paths[r][1], paths[r][2])
             IN  /\ paths' = [paths EXCEPT ![r] = ordered]
                 /\ paths_id' = [paths_id EXCEPT ![r] =
                                    get_paths_id(ordered[1], ordered[2])]
          /\ Goto(r, "lock")
          /\ UNCHANGED <<argv, lockFiles, atexit, retries, i, files, stdout>>
    /\ UNCHANGED <<attempts, failures, listed>>

\* lock_file.touch() that accepts an existing file.
AcquireLockExistOk(r) ==
    /\ UNCHANGED <<pairVars, attrVars, engVars>>
    /\ pc[r] = "lock"
    /\ lockFiles' = lockFiles \cup {paths_id[r]}
    /\ Goto(r, "register")
    /\ UNCHANGED <<argv, paths, atexit, retries, i, files, stdout>>
    /\ UNCHANGED <<paths_id, attempts, failures, listed>>

\* A main that checks for the lock file and goes on without creating it.
AcquireLockNoTouch(r) ==
    /\ UNCHANGED <<pairVars, attrVars, engVars>>
    /\ pc[r] = "lock"
    /\ IF paths_id[r] \in lockFiles
       THEN Exit(r, 23)
       ELSE /\ Goto(r, "register")
            /\ UNCHANGED <<argv, paths, lockFiles, atexit, retries, i, files,
                           stdout>>
    /\ UNCHANGED <<paths_id, attempts, failures, listed>>

\* main: lock_file.touch(exist_ok=False), an exclusive create; exit 23 when
\* the file exists.
AcquireLock(r) ==
    /\ UNCHANGED <<pairVars, attrVars, engVars>>
    /\ pc[r] = "lock"
    /\ IF paths_id[r] \in lockFiles
       THEN Exit(r, 23)
       ELSE /\ lockFiles' = lockFiles \cup {paths_id[r]}
            /\ Goto(r, "register")
            /\ UNCHANGED <<argv, paths, atexit, retries, i, files, stdout>>
    /\ UNCHANGED <<paths_id, attempts, failures, listed>>

\* main: atexit.register(delete_lock_file, lock_file), then the retries
\* argument: args.retries when truthy, else list_files' default of 1.
Register(r) ==
    /\ UNCHANGED <<pairVars, attrVars, engVars>>
    /\ pc[r] = "register"
    /\ atexit' = [atexit EXCEPT ![r] = TRUE]
    /\ retries' = [retries EXCEPT ![r] =
                      IF argv[r].retries # None /\ argv[r].retries[1] # 0
                      THEN argv[r].retries[1] ELSE 1]
    /\ Goto(r, "list_files")
    /\ UNCHANGED <<argv, paths, paths_id, lockFiles, i, attempts, failures,
                   listed, files, stdout>>

\* A list_files that lists both sides first and only then sets up the
\* working directory.
MkWorkingDirAfterListing(r) ==
    /\ UNCHANGED <<pairVars, attrVars, engVars>>
    /\ \/ /\ pc[r] = "not_implemented"
          /\ Exit(r, 24)
       \/ /\ pc[r] = "list_files"
          /\ files' = [files EXCEPT ![r] = << >>]
          /\ i' = [i EXCEPT ![r] = 0]
          /\ Goto(r, "list_1")
          /\ UNCHANGED <<argv, paths, lockFiles, atexit, retries, stdout>>
    /\ UNCHANGED <<paths_id, attempts, failures, listed>>

\* list_files: working_dir.expanduser().resolve() raises AttributeError when
\* --working-directory was given (args.working_directory is a str), which
\* nothing catches (status 1); working_dir.mkdir; exit 24 on OSError; else
\* files = {}.
MkWorkingDir(r) ==
    /\ UNCHANGED <<pairVars, attrVars, engVars>>
    /\ pc[r] = "list_files"
    /\ \/ Exit(r, 1)
       \/ Exit(r, 24)
       \/ /\ files' = [files EXCEPT ![r] = << >>]
          /\ i' = [i EXCEPT ![r] = 0]
          /\ Goto(r, "list_1")
          /\ UNCHANGED <<argv, paths, lockFiles, atexit, retries, stdout>>
    /\ UNCHANGED <<paths_id, attempts, failures, listed>>

Label(k) == IF k = 1 THEN "list_1" ELSE "list_2"
Slot(k) == IF k = 1 THEN "path_1" ELSE "path_2"
\* A list_files that returns after the listing of side 1.
AfterListSkipsSide2(k) == "not_implemented"

\* list_files: side 2 is listed after side 1, then list_files goes on.
AfterList(k) == IF k = 1 THEN "list_2" ELSE "not_implemented"

\* list_files_in_path, one iteration of `for i in range(retries)`: the
\* listing command runs; on failure the attempt is reported and the loop
\* goes on; on success its output is parsed into files, and an exception
\* of parse_lsf ends the run.
ListAttempt(r, k, Outputs) ==
    /\ UNCHANGED <<pairVars, attrVars, engVars>>
    /\ pc[r] = Label(k)
    /\ i[r] < retries[r]
    /\ attempts' = [attempts EXCEPT ![r][k] = @ + 1]
    /\ \/ /\ failures' = [failures EXCEPT ![r][k] = @ + 1]
          /\ i' = [i EXCEPT ![r] = @ + 1]
          /\ UNCHANGED <<pc, exitCode, exitAt, lockFiles, files, stdout,
                         listed, argv, paths, atexit, retries>>
       \/ /\ \E out \in Outputs :
               LET parsed == parse_lsf(out, Slot(k), files[r])
               IN  /\ listed' = [listed EXCEPT ![r][k] = Some(Len(out))]
                   /\ IF parsed.raised
                      THEN Exit(r, 1)
                      ELSE /\ files' = [files EXCEPT ![r] = parsed.files]
                           /\ stdout' = [stdout EXCEPT ![r][k] = Some(out)]
                           /\ i' = [i EXCEPT ![r] = 0]
                           /\ Goto(r, AfterList(k))
                           /\ UNCHANGED <<argv, paths, lockFiles, atexit,
                                          retries>>
          /\ UNCHANGED failures
    /\ UNCHANGED paths_id

\* A loop that gives up one attempt early.
ListExhaustedEarly(r, k) ==
    /\ UNCHANGED <<pairVars, attrVars, engVars>>
    /\ pc[r] = Label(k)
    /\ i[r] >= retries[r] - 1
    /\ Exit(r, 3 + k)
    /\ UNCHANGED <<paths_id, attempts, failures, listed>>

\* list_files_in_path, after the loop: sys.exit(3 + path_number).
ListExhausted(r, k) ==
    /\ UNCHANGED <<pairVars, attrVars, engVars>>
    /\ pc[r] = Label(k)
    /\ i[r] >= retries[r]
    /\ Exit(r, 3 + k)
    /\ UNCHANGED <<paths_id, attempts, failures, listed>>

\* list_files: raise NotImplementedError, uncaught: status 1.
RaiseNotImplemented(r) ==
    /\ UNCHANGED <<pairVars, attrVars, engVars>>
    /\ pc[r] = "not_implemented"
    /\ Exit(r, 1)
    /\ UNCHANGED <<paths_id, attempts, failures, listed>>

\* The process is killed by a signal Python does not handle (status -9 to
\* its parent): it ends at once and no atexit handler runs.
Kill(r) ==
    /\ UNCHANGED <<pairVars, attrVars, engVars>>
    /\ pc[r] \notin {"parse_args", "done"}
    /\ exitCode' = [exitCode EXCEPT ![r] = Some(-9)]
    /\ ProcessEnds(r)
    /\ UNCHANGED <<paths_id, lockFiles, attempts, failures, listed>>

\* One step of run r, with its command line drawn from Args and the
\* outputs of its listings from Outputs.
Step(r, Args, Outputs) ==
    \/ ParseArgs(r, Args)
    \/ CheckRcloneConfig(r)
    \/ ResolvePaths(r)
    \/ AcquireLock(r)
    \/ Register(r)
    \/ MkWorkingDir(r)
    \/ ListAttempt(r, 1, Outputs)
    \/ ListAttempt(r, 2, Outputs)
    \/ ListExhausted(r, 1)
    \/ ListExhausted(r, 2)
    \/ RaiseNotImplemented(r)
    \/ Kill(r)

\* Concurrent runs of main().
Next == \E r \in Runs : Step(r, ConcArgv, ConcOutputs)

Spec == Init /\ [][Next]_vars

\* One run of main() on its own, over every command line and listing.
NextOne == Step(1, Argv, LsfOutputs)

SpecOne == Init /\ [][NextOne]_vars

(* ------------------- the pair identifier, both orders ----------------- *)
\* Two distinct canonical endpoints, as resolve_paths lets through.
InitPair ==
    /\ InitRuns
    /\ AttrIdle
    /\ EngineIdle
    /\ ep_a \in Strs(MaxLen)
    /\ ep_b \in Strs(MaxLen) \ {ep_a}
    /\ id_ab = None
    /\ id_ba = None
    /\ ep_c = EmptyStr
    /\ ep_d = EmptyStr
    /\ id_cd = None

\* main run with the endpoints as (ep_a, ep_b).
DeriveAB ==
    /\ id_ab = None
    /\ id_ab' = PairId(ep_a, ep_b)
    /\ UNCHANGED <<ep_a, ep_b, id_ba, ep_c, ep_d, id_cd, runVars,
                   attrVars, engVars>>

\* main run with the endpoints as (ep_b, ep_a).
DeriveBA ==
    /\ id_ba = None
    /\ id_ba' = PairId(ep_b, ep_a)
    /\ UNCHANGED <<ep_a, ep_b, id_ab, ep_c, ep_d, id_cd, runVars,
                   attrVars, engVars>>

NextPair == DeriveAB \/ DeriveBA

SpecPair == InitPair /\ [][NextPair]_vars

(* ------------------ the pair identifiers of two pairs ----------------- *)
\* The pairs of resolved paths main hands to get_paths_id: two distinct
\* canonical endpoints, the greater string second.
OrderedPairs ==
    {pr \in Strs(MaxLen) \X Strs(MaxLen) :
        pr[1] # pr[2] /\ ~StrGt(pr[1], pr[2])}

\* Two runs of main, each on a pair of its own.
InitIds ==
    /\ InitRuns
    /\ AttrIdle
    /\ EngineIdle
    /\ \E pr \in OrderedPairs : ep_a = pr[1] /\ ep_b = pr[2]
    /\ \E pr \in OrderedPairs : ep_c = pr[1] /\ ep_d = pr[2]
    /\ id_ab = None
    /\ id_ba = None
    /\ id_cd = None

\* main of the first run: paths_id = get_paths_id(path_1_str, path_2_str).
HashAB ==
    /\ id_ab = None
    /\ id_ab' = get_paths_id(ep_a, ep_b)
    /\ UNCHANGED <<ep_a, ep_b, id_ba, ep_c, ep_d, id_cd, runVars,
                   attrVars, engVars>>

\* main of the second run.
HashCD ==
    /\ id_cd = None
    /\ id_cd' = get_paths_id(ep_c, ep_d)
    /\ UNCHANGED <<ep_a, ep_b, id_ab, id_ba, ep_c, ep_d, runVars,
                   attrVars, engVars>>

NextIds == HashAB \/ HashCD

SpecIds == InitIds /\ [][NextIds]_vars

(* --------------------- comparing FileAttributes ----------------------- *)
\* The FileAttributes objects a SyncFile can carry: as constructed, or as
\* add_properties left them, with a size and a timestamp.
AttrSlots ==
    {FileAttributes} \cup
    {add_properties(SyncFile(<<1>>), "path_1", s, t).path_1 :
        s \in 0 .. MaxSize, t \in TimestampMin .. MaxTime}

InitAttrs ==
    /\ InitRuns
    /\ PairIdle
    /\ EngineIdle
    /\ fa_x \in AttrSlots
    /\ fa_y \in AttrSlots
    /\ eq_xy = None
    /\ eq_yx = None

\* fa_x == fa_y is evaluated.
CompareXY ==
    /\ eq_xy = None
    /\ eq_xy' = Some(FileAttributesEq(fa_x, fa_y))
    /\ UNCHANGED <<fa_x, fa_y, eq_yx, runVars, pairVars, engVars>>

\* fa_y == fa_x is evaluated.
CompareYX ==
    /\ eq_yx = None
    /\ eq_yx' = Some(FileAttributesEq(fa_y, fa_x))
    /\ UNCHANGED <<fa_x, fa_y, eq_xy, runVars, pairVars, engVars>>

NextAttrs == CompareXY \/ CompareYX

SpecAttrs == InitAttrs /\ [][NextAttrs]_vars

(* ---------------------- the reconciliation engine --------------------- *)
\* FileAttributes of the design document: present with a size and a
\* modification time, or absent. Equality is equality of all three.
Absent == [present |-> FALSE, size |-> 0, modified_at |-> 0]

\* The v-th attribute value of a present file: (1,1), (2,1), (1,2), (2,2)...
Version(v) ==
    [present |-> TRUE, size |-> ((v - 1) % 2) + 1,
     modified_at |-> ((v - 1) \div 2) + 1]

AttrValues == {Absent} \cup {Version(v) : v \in 1 .. NumVersions}

PathMaps == [PathNames -> AttrValues]

\* The rules of the decision table that match one path's observations.
MatchingRules(cA, cB, bA, bB) ==
    {n \in 1 .. 6 :
        \/ n = 1 /\ cA = cB
        \/ n = 2 /\ cA = bA /\ cB # bB
        \/ n = 3 /\ cB = bB /\ cA # bA
        \/ n = 4 /\ cA # bA /\ cB # bB
        \/ n = 5 /\ ~bA.present /\ ~bB.present /\ cA.present # cB.present
        \/ n = 6 /\ ~bA.present /\ ~bB.present /\ cA.present /\ cB.present
                 /\ cA # cB}

Min(S) == CHOOSE n \in S : \A m \in S : n <= m
Max(S) == CHOOSE n \in S : \A m \in S : n >= m

\* Rule 2 with the deletion decided on the side that did not change.
RuleActionDeleteTestSwapped(n, cA, cB) ==
    CASE n = 1 -> "no-op"
      [] n = 2 -> IF ~cA.present THEN "delete on A" ELSE "copy B->A"
      [] n = 3 -> IF ~cA.present THEN "delete on B" ELSE "copy A->B"
      [] n = 4 -> "conflict"
      [] n = 5 -> IF cA.present THEN "copy A->B" ELSE "copy B->A"
      [] n = 6 -> "conflict"

\* Rule 3 propagating from the side that did not change.
RuleActionWrongSource(n, cA, cB) ==
    CASE n = 1 -> "no-op"
      [] n = 2 -> IF ~cB.present THEN "delete on A" ELSE "copy B->A"
      [] n = 3 -> IF ~cA.present THEN "delete on A" ELSE "copy B->A"
      [] n = 4 -> "conflict"
      [] n = 5 -> IF cA.present THEN "copy A->B" ELSE "copy B->A"
      [] n = 6 -> "conflict"

\* The action of rule n of the decision table.
RuleAction(n, cA, cB) ==
    CASE n = 1 -> "no-op"
      [] n = 2 -> IF ~cB.present THEN "delete on A" ELSE "copy B->A"
      [] n = 3 -> IF ~cA.present THEN "delete on B" ELSE "copy A->B"
      [] n = 4 -> "conflict"
      [] n = 5 -> IF cA.present THEN "copy A->B" ELSE "copy B->A"
      [] n = 6 -> "conflict"

ActionKinds ==
    {"no-op", "copy A->B", "copy B->A", "delete on A", "delete on B",
     "conflict"}

\* What the engine has for a path that no rule of the table matches.
NoAction == "none"

\* The plan's entry of a path before the engine ran.
Pending == "pending"

\* The table read with the last matching rule winning.
ClassifyLastRuleWins(cA, cB, bA, bB) ==
    LET rules == MatchingRules(cA, cB, bA, bB)
    IN  IF rules = {} THEN NoAction ELSE RuleAction(Max(rules), cA, cB)

\* The decision table: the first matching rule wins.
Classify(cA, cB, bA, bB) ==
    LET rules == MatchingRules(cA, cB, bA, bB)
    IN  IF rules = {} THEN NoAction ELSE RuleAction(Min(rules), cA, cB)

\* The engine over the union of the paths of the four maps.
ActionPlan(cA, cB, bA, bB) ==
    [p \in PathNames |-> Classify(cA[p], cB[p], bA[p], bB[p])]

\* An executor whose copies and deletions change nothing.
ExecuteNothing(action, a, b) == <<a, b>>

\* The action executor on one path holding a on side A and b on side B:
\* what the two sides hold afterwards.
Execute(action, a, b) ==
    CASE action = "copy A->B" -> <<a, a>>
      [] action = "copy B->A" -> <<b, b>>
      [] action = "delete on A" -> <<Absent, b>>
      [] action = "delete on B" -> <<a, Absent>>
      [] OTHER -> <<a, b>>

\* A store that advances the baseline of every path.
NewBaselineAllPaths(action, old, new) == new

\* The baseline entry written for a path at the end of a run: the
\* post-action attributes, except for a path excluded from the plan.
NewBaseline(action, old, new) ==
    IF action \in {"conflict", NoAction} THEN old ELSE new

\* A run after the baseline was loaded and both sides were listed, over
\* every combination of the four maps.
InitEngine ==
    /\ InitRuns
    /\ PairIdle
    /\ AttrIdle
    /\ eng_pc = "listed"
    /\ sideA \in PathMaps
    /\ sideB \in PathMaps
    /\ storeA \in PathMaps
    /\ storeB \in PathMaps
    /\ currentA = sideA
    /\ currentB = sideB
    /\ baselineA = storeA
    /\ baselineB = storeB
    /\ plan = [p \in PathNames |-> Pending]

\* ReconciliationEngine: the plan of this run.
Reconcile ==
    /\ eng_pc = "listed"
    /\ plan' = ActionPlan(currentA, currentB, baselineA, baselineB)
    /\ eng_pc' = "planned"
    /\ UNCHANGED <<sideA, sideB, storeA, storeB, currentA, currentB,
                   baselineA, baselineB, runVars, pairVars,
                   attrVars>>

\* ActionExecutor: every action of the plan is carried out.
ApplyPlan ==
    /\ eng_pc = "planned"
    /\ sideA' = [p \in PathNames |-> Execute(plan[p], sideA[p], sideB[p])[1]]
    /\ sideB' = [p \in PathNames |-> Execute(plan[p], sideA[p], sideB[p])[2]]
    /\ eng_pc' = "applied"
    /\ UNCHANGED <<storeA, storeB, currentA, currentB, baselineA, baselineB,
                   plan, runVars, pairVars,
                   attrVars>>

\* BaselineStore.save at the end of the run.
SaveBaseline ==
    /\ eng_pc = "applied"
    /\ storeA' = [p \in PathNames |-> NewBaseline(plan[p], storeA[p], sideA[p])]
    /\ storeB' = [p \in PathNames |-> NewBaseline(plan[p], storeB[p], sideB[p])]
    /\ eng_pc' = "saved"
    /\ UNCHANGED <<sideA, sideB, currentA, currentB, baselineA, baselineB,
                   plan, runVars, pairVars,
                   attrVars>>

\* The next run: BaselineStore.load and the two listings.
NextRun ==
    /\ eng_pc = "saved"
    /\ currentA' = sideA
    /\ currentB' = sideB
    /\ baselineA' = storeA
    /\ baselineB' = storeB
    /\ plan' = [p \in PathNames |-> Pending]
    /\ eng_pc' = "listed"
    /\ UNCHANGED <<sideA, sideB, storeA, storeB, runVars, pairVars,
                   attrVars>>

NextEngine == Reconcile \/ ApplyPlan \/ SaveBaseline \/ NextRun

SpecEngine == InitEngine /\ [][NextEngine]_vars

(* ------------------------ the lock, properties ------------------------ *)
\* Run r created the lock file of its pair and has not ended.
Holds(r) ==
    pc[r] \in {"register", "list_files", "list_1", "list_2", "not_implemented"}

\* Run r was killed by a signal.
Killed(r) == pc[r] = "done" /\ exitCode[r] = Some(-9)

\* C1: of the runs on one pair (the endpoints given in either order), at
\* most one at a time has created the lock file and not yet ended; no two
\* runs list the same pair at the same time.
C1_OneRunPerPair ==
    \A r, s \in Runs :
        (r # s /\ Holds(r) /\ Holds(s)) => paths_id[r] # paths_id[s]

\* A run has listed side 1 and is at side 2 while another run on the same
\* pair is about to create the lock file.
C1_Witness ==
    \E r, s \in Runs :
        /\ pc[r] = "list_2" /\ attempts[r][1] > 0
        /\ pc[s] = "lock"
        /\ paths_id[s] = paths_id[r]

\* C2 as stated: whenever a run that created the lock file ends, by
\* whatever path, the lock file of its pair is gone.
C2_LockRemovedOnEveryEnd ==
    [][\A r \in Runs :
          (Holds(r) /\ pc'[r] = "done") => paths_id[r] \notin lockFiles']_vars

\* C2, amended: a run that created the lock file and ends through the
\* interpreter (sys.exit or an uncaught exception) removes it; a lock file
\* without a running holder was left by a run killed while it held it.
C2_LockRemovedOnInterpreterExit ==
    /\ [][\A r \in Runs :
            (Holds(r) /\ pc'[r] = "done" /\ exitCode'[r] # Some(-9))
                => paths_id[r] \notin lockFiles']_vars
    /\ [](\A id \in lockFiles :
            \E r \in Runs :
                /\ paths_id[r] = id
                /\ \/ Holds(r)
                   \/ Killed(r) /\ exitAt[r] # "lock"
                                /\ exitAt[r] # "resolve_paths")

\* A run ended with exit code 4 after the listing of side 1 failed, and a
\* later run on the same pair created the lock file again.
C2_Witness ==
    \E r, s \in Runs :
        /\ pc[r] = "done" /\ exitCode[r] = Some(4) /\ exitAt[r] = "list_1"
        /\ Holds(s)
        /\ paths_id[s] = paths_id[r]

\* C3: exit code 23 is the code of a run that found the lock file, and of
\* no other end; such a run has made no listing; the step in which it ends
\* leaves the lock file and every other run as they were; and a run that
\* finds the lock file when it tries to create it ends in that step.
C3_LockedOutExits23 ==
    /\ [](\A r \in Runs :
            /\ exitCode[r] = Some(23) <=>
                  (pc[r] = "done" /\ exitAt[r] = "lock" /\ ~Killed(r))
            /\ exitCode[r] = Some(23) => attempts[r] = NoSides)
    /\ [][\A r \in Runs :
            (/\ pc[r] = "lock"
             /\ pc'[r] # "lock"
             /\ exitCode'[r] # Some(-9)
             /\ paths_id[r] \in lockFiles)
            => /\ exitCode'[r] = Some(23)
               /\ lockFiles' = lockFiles
               /\ \A s \in Runs \ {r} :
                     /\ pc'[s] = pc[s]
                     /\ files'[s] = files[s]
                     /\ attempts'[s] = attempts[s]
                     /\ atexit'[s] = atexit[s]]_vars

\* A run ended with exit code 23 and the run holding the lock of the same
\* pair went on to list both sides.
C3_Witness ==
    \E r, s \in Runs :
        /\ exitCode[r] = Some(23)
        /\ pc[s] = "not_implemented"
        /\ paths_id[s] = paths_id[r]
        /\ paths_id[s] \in lockFiles

(* ------------------- the pair identifier, properties ------------------ *)
\* C10: the identifier main derives for two distinct canonical endpoints is
\* the same in both argument orders.
C10_PairIdSymmetric ==
    (id_ab # None /\ id_ba # None) => id_ab = id_ba

\* Both identifiers were derived, and one of the two orders had to be
\* swapped by the ordering step, one endpoint being a prefix of the other.
C10_Witness ==
    /\ id_ab # None
    /\ id_ba # None
    /\ StrGt(ep_a, ep_b)
    /\ Len(ep_a) > Len(ep_b)
    /\ SubSeq(ep_a, 1, Len(ep_b)) = ep_b

(* ------------------ the reconciliation engine, properties ------------- *)
\* The engine has run in this run.
Planned == eng_pc \in {"planned", "applied", "saved"}

\* The plan has been carried out in this run.
Applied == eng_pc \in {"applied", "saved"}

\* Both sides changed since the baseline and disagree at path p.
BothChanged(p) ==
    /\ currentA[p] # baselineA[p]
    /\ currentB[p] # baselineB[p]
    /\ currentA[p] # currentB[p]

\* C4: a path where both sides changed since the baseline and disagree is a
\* conflict; the run modifies neither side at that path and leaves the
\* persisted baseline entry of that path as it was.
C4_ConflictLeavesPathAlone ==
    \A p \in PathNames :
        BothChanged(p) =>
            /\ Planned => plan[p] = "conflict"
            /\ Applied => (sideA[p] = currentA[p] /\ sideB[p] = currentB[p])
            /\ eng_pc = "saved" =>
                  (storeA[p] = baselineA[p] /\ storeB[p] = baselineB[p])

\* A run has ended with a path that is in the baseline of both sides and
\* was changed on both sides, differently.
C4_Witness ==
    \E p \in PathNames :
        /\ eng_pc = "saved"
        /\ BothChanged(p)
        /\ baselineA[p].present /\ baselineB[p].present
        /\ currentA[p].present /\ currentB[p].present

\* C5: where exactly one side changed since the baseline and the sides
\* differ, the changed side is propagated to the unchanged one: a deletion
\* when the changed side is absent, a copy from it otherwise.
C5_ChangedSidePropagates ==
    Planned =>
        \A p \in PathNames :
            /\ (/\ currentA[p] = baselineA[p]
                /\ currentB[p] # baselineB[p]
                /\ currentA[p] # currentB[p])
               => plan[p] = IF ~currentB[p].present
                            THEN "delete on A" ELSE "copy B->A"
            /\ (/\ currentB[p] = baselineB[p]
                /\ currentA[p] # baselineA[p]
                /\ currentA[p] # currentB[p])
               => plan[p] = IF ~currentA[p].present
                            THEN "delete on B" ELSE "copy A->B"

\* A file of the baseline was removed on side A and is unchanged on side B:
\* it is deleted on B.
C5_Witness ==
    \E p \in PathNames :
        /\ Planned
        /\ currentB[p] = baselineB[p] /\ currentB[p].present
        /\ baselineA[p].present /\ ~currentA[p].present
        /\ plan[p] = "delete on B"

\* C6: a path whose current state is the same on both sides is a no-op,
\* whatever the baseline.
C6_EqualSidesNoOp ==
    Planned =>
        \A p \in PathNames :
            currentA[p] = currentB[p] => plan[p] = "no-op"

\* Both sides made the same change to a file of the baseline.
C6_Witness ==
    \E p \in PathNames :
        /\ Planned
        /\ currentA[p] = currentB[p] /\ currentA[p].present
        /\ baselineA[p].present /\ baselineA[p] # currentA[p]
        /\ baselineB[p].present /\ baselineB[p] # currentB[p]

\* C7: the decision table gives every path one of the six actions.
C7_TableTotal ==
    Planned => \A p \in PathNames : plan[p] \in ActionKinds

\* The plan of a second run made after the first plan was applied, with
\* both sides listed again and the baseline set to the new current state.
SecondPlan(p) == Classify(sideA[p], sideB[p], sideA[p], sideB[p])

C9_NewFileIsCopied ==
    Planned =>
        \A p \in PathNames :
            (/\ ~baselineA[p].present
             /\ ~baselineB[p].present
             /\ currentA[p].present # currentB[p].present)
            => plan[p] = IF currentA[p].present
                         THEN "copy A->B" ELSE "copy B->A"

\* A file with no baseline is on side B only and is copied to side A.
C9_Witness ==
    \E p \in PathNames :
        /\ Planned
        /\ ~baselineA[p].present /\ ~baselineB[p].present
        /\ ~currentA[p].present /\ currentB[p].present
        /\ plan[p] = "copy B->A"

(* ------------------ C11: the identifier tells pairs apart ------------- *)
\* C11: with SHA-256 taken as injective, two runs whose ordered pairs of
\* canonical endpoints differ derive different pair identifiers, so they use
\* different lock files and baseline keys.
C11_PairIdUnique ==
    (id_ab # None /\ id_cd # None /\ <<ep_a, ep_b>> # <<ep_c, ep_d>>)
        => id_ab # id_cd

(* ------------------ C12: the retry loop of one side ------------------- *)
\* The run is inside list_files_in_path for side k with N = retries >= 1.
Listing(k) == pc[1] = Label(k) /\ retries[1] >= 1

\* What holds whenever the loop of side k is running.
C12_LoopState(k) ==
    Listing(k) =>
        /\ attempts[1][k] = failures[1][k]
        /\ failures[1][k] = i[1]
        /\ attempts[1][k] <= retries[1]

\* What holds of every step taken while the loop of side k is running.
C12_LoopStep(k) ==
    Listing(k) =>
        \* one attempt at a time, and never one more than N
        /\ attempts'[1][k] \in {attempts[1][k], attempts[1][k] + 1}
        /\ attempts'[1][k] # attempts[1][k] => attempts[1][k] < retries[1]
        \* every failed attempt is reported, and the loop goes on
        /\ failures'[1][k] \in {failures[1][k], failures[1][k] + 1}
        /\ failures'[1][k] # failures[1][k] =>
              /\ attempts'[1][k] = attempts[1][k] + 1
              /\ pc'[1] = Label(k)
        \* the first success ends the loop
        /\ (attempts'[1][k] # attempts[1][k]
                /\ failures'[1][k] = failures[1][k]) => pc'[1] # Label(k)
        \* exit 3 + k exactly when all N attempts failed
        /\ exitCode'[1] = Some(3 + k) =>
              failures[1][k] = retries[1] /\ attempts'[1][k] = retries[1]
        /\ (failures[1][k] = retries[1] /\ pc'[1] # pc[1]
                /\ exitCode'[1] # Some(-9)) => exitCode'[1] = Some(3 + k)

\* C12: for side k and N >= 1 retries, list_files_in_path runs the listing
\* command one attempt after the other, stops at the first success, makes at
\* most N attempts, reports every failed one, and ends the run with exit
\* code 3 + k exactly when all N attempts failed.
C12_RetryLoop ==
    /\ [](\A k \in 1 .. 2 : C12_LoopState(k))
    /\ [][\A k \in 1 .. 2 : C12_LoopStep(k)]_vars

\* Side 1 succeeded at its second attempt and side 2 failed N = 2 times.
C12_Witness ==
    /\ exitCode[1] = Some(5)
    /\ failures[1] = [k \in 1 .. 2 |-> k]
    /\ attempts[1] = [k \in 1 .. 2 |-> 2]

(* ------------------ C13: equality of FileAttributes ------------------- *)
\* Equality as the design document has it: both absent, or both present
\* with the same size and the same timestamp.
SameSizeAndTimestamp(a, b) ==
    \/ a.size = None /\ b.size = None
    \/ /\ a.size # None
       /\ b.size # None
       /\ a.size = b.size
       /\ a.timestamp = b.timestamp

\* C13: two FileAttributes values compare equal exactly when both are absent
\* or both are present with the same size and the same timestamp; two present
\* values of equal size and different timestamps are not equal.
C13_EqualityUsesTimestamp ==
    /\ eq_xy # None => (eq_xy[1] <=> SameSizeAndTimestamp(fa_x, fa_y))
    /\ eq_yx # None => (eq_yx[1] <=> SameSizeAndTimestamp(fa_y, fa_x))

(* ------------------ C14: the file map after both listings ------------ *)
\* The paths a listing output names.
ListedIn(out) == {out[j][1] : j \in 1 .. Len(out)}

\* The slot of side k of entry f_obj is what the listing of side k said of
\* its path: the size and timestamp of a line naming it, or nothing.
SlotAsListed(f_obj, k, out) ==
    IF f_obj.path \in ListedIn(out)
    THEN \E j \in 1 .. Len(out) :
            /\ out[j][1] = f_obj.path
            /\ f_obj[Slot(k)] = [size |-> Some(out[j][3]),
                                 timestamp |-> out[j][2]]
    ELSE f_obj[Slot(k)] = FileAttributes

\* C14: once both listings have succeeded, the file map has an entry for
\* exactly the paths listed on at least one side; the slot of a side that
\* listed the path carries the listed size and timestamp, and the slot of a
\* side that did not list it is absent.
C14_FileMapIsUnionOfListings ==
    pc[1] = "not_implemented" =>
        /\ stdout[1][1] # None
        /\ stdout[1][2] # None
        /\ DOMAIN files[1] =
              ListedIn(stdout[1][1][1]) \cup ListedIn(stdout[1][2][1])
        /\ \A p \in DOMAIN files[1] :
              /\ files[1][p].path = p
              /\ \A k \in 1 .. 2 :
                    SlotAsListed(files[1][p], k, stdout[1][k][1])

\* Side 1 listed only "a" and side 2 only "b": two entries, each with one
\* slot filled.
C14_Witness ==
    /\ pc[1] = "not_implemented"
    /\ DOMAIN files[1] = {<<1>>, <<2>>}
    /\ files[1][<<1>>].path_1 # FileAttributes
    /\ files[1][<<1>>].path_2 = FileAttributes
    /\ files[1][<<2>>].path_1 = FileAttributes
    /\ files[1][<<2>>].path_2 # FileAttributes

(* ------------------ C15: a listing of no file ------------------------- *)
\* C15: a listing command that succeeds and reports no file is a success:
\* it raises no error and the run goes on past the listing of that side, so
\* the run never ends in the step of a side whose command reported no file.
C15_EmptyListingIsSuccess ==
    \A k \in 1 .. 2 :
        listed[1][k] = Some(0) => ~(pc[1] = "done" /\ exitAt[1] = Label(k))

(* ------------------ C16: setup errors come before any listing --------- *)
\* Run r ended on a configuration or setup error: rclone or its
\* configuration file missing (10, 11), an endpoint that does not resolve
\* (1, 2), a working directory that cannot be used (24, or the exception
\* list_files raises before its first listing).
SetupError(r) ==
    \/ exitCode[r] \in {Some(10), Some(11), Some(2), Some(24)}
    \/ exitCode[r] = Some(1) /\ exitAt[r] \in {"resolve_paths", "list_files"}

\* C16: a configuration or setup error (rclone or its configuration file
\* missing, an endpoint that cannot be resolved, a working directory that
\* cannot be created) ends the run, and no listing command was run for
\* either side before it.
C16_SetupErrorsBeforeListing ==
    \A r \in Runs :
        SetupError(r) =>
            /\ pc[r] = "done"
            /\ attempts[r] = NoSides
            /\ listed[r] = NoOutputs

\* The last of the setup errors: the working directory cannot be created,
\* after the lock was taken.
C16_Witness ==
    /\ exitCode[1] = Some(24)
    /\ exitAt[1] = "list_files"
    /\ paths_id[1] # None

(* ------------------ C17: listings happen under the lock --------------- *)
\* Run r holds the lock of its pair: it created the lock file, registered its
\* removal, and the file is there.
HoldsLock(r) == Holds(r) /\ atexit[r] /\ paths_id[r] \in lockFiles

\* C17: a run invokes the listing command only while it holds the lock of
\* its pair: every listing attempt starts in a state where the run has
\* acquired the lock and not yet released it, and a run that can list holds
\* the lock.
C17_ListingOnlyUnderLock ==
    /\ [](\A r \in Runs : pc[r] \in {"list_1", "list_2"} => HoldsLock(r))
    /\ [][\A r \in Runs : attempts'[r] # attempts[r] => HoldsLock(r)]_vars

\* Run 1 has listed side 1 and is listing side 2 while run 2 was turned
\* away from the same pair.
C17_Witness ==
    /\ pc[1] = "list_2"
    /\ attempts[1][2] > 0
    /\ HoldsLock(1)
    /\ exitCode[2] = Some(23)
    /\ paths_id[2] = paths_id[1]

(* ------------------ C18: both listings, side 1 first ------------------ *)
\* The file map that merging the output of side 1 and then that of side 2
\* into an empty map gives.
Merged(out_1, out_2) ==
    parse_lsf(out_2, "path_2", parse_lsf(out_1, "path_1", << >>).files).files

\* C18: the run gets past the listing only when the listing commands of both
\* sides have succeeded and both outputs were merged into the file map; side
\* 2 is listed only after the listing of side 1 has succeeded; and a run
\* that gives up on side 1 (exit code 4) has never listed side 2.
C18_BothSidesListedInOrder ==
    /\ (pc[1] = "not_implemented" \/ exitAt[1] = "not_implemented") =>
          listed[1][1] # None /\ listed[1][2] # None
    /\ pc[1] = "not_implemented" =>
          /\ stdout[1][1] # None
          /\ stdout[1][2] # None
          /\ files[1] = Merged(stdout[1][1][1], stdout[1][2][1])
    /\ (pc[1] = "list_2" \/ attempts[1][2] > 0) =>
          /\ listed[1][1] # None
          /\ attempts[1][1] = failures[1][1] + 1
    /\ exitCode[1] = Some(4) =>
          attempts[1][2] = 0 /\ listed[1] = NoOutputs

\* Both sides were listed at the second attempt and the run is past the
\* listing with a file of each side in the map.
C18_Witness ==
    /\ pc[1] = "not_implemented"
    /\ failures[1] = [k \in 1 .. 2 |-> 1]
    /\ stdout[1][1] # stdout[1][2]

(* ------------------ C19: exit codes 4 and 5 --------------------------- *)
\* C19: whatever --retries was given (none, zero, a positive or a negative
\* number), a run that ends with the listing-failure code of side k (4 or 5)
\* has run the listing command of that side at least once, and that attempt
\* failed.
C19_ListingFailureAfterFailedAttempt ==
    \A k \in 1 .. 2 :
        exitCode[1] = Some(3 + k) =>
            attempts[1][k] >= 1 /\ failures[1][k] >= 1

(* ------------------ C20: a pair of two equal endpoints ---------------- *)
\* Run r is past resolve_paths.
Resolved(r) ==
    pc[r] \in {"lock", "register", "list_files", "list_1", "list_2",
               "not_implemented"}

====
